---- MODULE Spec2Model ----
(***************************************************************************)
(* GitHub-to-social automation: webhook verification, the per-day event   *)
(* store, the review gate of the publisher and the daily scheduler job.   *)
(* Python values are modelled as follows: an optional string (a header,   *)
(* an environment variable) is a record [present, text]; the outcome of a *)
(* call is a record [exc, val] with exc = "" when the call returned.      *)
(***************************************************************************)
EXTENDS Integers, Sequences, FiniteSets, TLC

VARIABLES
    app,        \* which application the process runs: the package's or the legacy one
    secret,     \* Config.GITHUB_WEBHOOK_SECRET
    vcall,      \* the last direct call of verify_webhook_signature and its outcome
    fcall,      \* the last direct call of a store or send function and its outcome
    req,        \* the last request given to POST /webhook
    resp,       \* its response
    legacy,     \* the legacy handler's calls for its last request
    today,      \* the calendar day the process clock shows
    files,      \* events_<day>.json per day
    posted,     \* posted_events_<day>.json per day
    cfg,        \* Config.REQUIRE_POST_REVIEW, Config.USE_PIPEDREAM
    rv,         \* the publish call in progress (review_and_post) and its review file
    job,        \* the scheduler's daily job
    person_urn, \* LinkedInPoster.person_urn, the cached identity
    savers      \* the calls of save_event in progress, one per request thread

vars == <<app, secret, vcall, fcall, req, resp, legacy, today, files, posted, cfg, rv, job, person_urn, savers>>

\* Bounds of the model
\* The last calendar day the clock reaches; the first is day 0
MaxDay == 2

\* Events held by the buckets, active and archived, while the scheduler runs
MaxStored == 2

\* Events the webhook handler stores
MaxSaved == 2

Days == 0..MaxDay

----------------------------------------------------------------------------
(* Python values *)

NoneStr == [present |-> FALSE, text |-> ""]

Str(s) == [present |-> TRUE, text |-> s]

Return(v) == [exc |-> "", val |-> v]

Raise(e) == [exc |-> e, val |-> FALSE]

\* `not x` for an optional string: None and "" are falsy.
Falsy(o) == ~o.present \/ o.text = ""

NonAsciiChars == {"ó"}

IsAsciiText(s) == \A i \in 1..Len(s) : SubSeq(s, i, i) \notin NonAsciiChars

\* s.startswith(p)
StartsWith(s, p) == Len(s) >= Len(p) /\ SubSeq(s, 1, Len(p)) = p

\* `needle in hay` for strings
Contains(hay, needle) ==
    \E i \in 1..(Len(hay) - Len(needle) + 1) :
        SubSeq(hay, i, i + Len(needle) - 1) = needle

\* s.find(sub, start): the first index at or after i where sub occurs in s,
\* or 0 when there is none
Find(s, sub, i) ==
    LET at == {k \in i..(Len(s) - Len(sub) + 1) : SubSeq(s, k, k + Len(sub) - 1) = sub}
    IN  IF at = {} THEN 0 ELSE CHOOSE k \in at : \A m \in at : k <= m

\* s.replace(old, new): every non-overlapping occurrence, left to right
RECURSIVE Replace(_, _, _)
Replace(s, old, new) ==
    LET k == IF Len(old) = 0 THEN 0 ELSE Find(s, old, 1) IN
    IF k = 0 THEN s
    ELSE SubSeq(s, 1, k - 1) \o new
         \o Replace(SubSeq(s, k + Len(old), Len(s)), old, new)

----------------------------------------------------------------------------
(* Webhook verifier: github_handler.py *)

\* hmac.new(secret, msg = data, digestmod = sha256).hexdigest(): a keyed hash,
\* taken to be collision free on the inputs of the model; its text is ASCII.
hexdigest(key, data) == "mac(" \o key \o "," \o data \o ")"

expected_signature(key, data) == "sha256=" \o hexdigest(key, data)

\* The request bodies of the model and what request.get_json() makes of them:
\* a JSON object, JSON null, or a body that does not parse (BadRequest).
EmptyBody == "{}"

PushBody == "{\"ref\":\"refs/heads/main\",\"commits\":[{\"message\":\"x\"}]}"

AccentBody == "{\"ref\":\"refs/heads/ó\"}"

NullBody == "null"

BadBody == "not json"

Bodies == {EmptyBody, PushBody, NullBody, BadBody}

Secrets == {Str("s1"), Str("s2")}

\* The signature headers tried: absent, empty, without the prefix, a wrong
\* digest, the right signature of each (secret, body), and non-ASCII text.
Signatures ==
    {NoneStr, Str(""), Str("sha256=invalid"), Str("sha256=ó")}
    \cup {Str(expected_signature(k.text, b)) : k \in Secrets, b \in Bodies}
    \cup {Str(hexdigest(k.text, b)) : k \in Secrets, b \in {EmptyBody}}

\* str.isascii, looked up for the texts above.
AsciiTable == [o \in Signatures |-> IsAsciiText(o.text)]

IsAscii(s) == IF Str(s) \in Signatures THEN AsciiTable[Str(s)] ELSE IsAsciiText(s)

\* hmac.compare_digest(a, b) with a: str. A None or a non-ASCII str operand
\* is a TypeError.
compare_digest(a, b) ==
    IF ~b.present THEN Raise("TypeError")
    ELSE IF ~IsAscii(a) \/ ~IsAscii(b.text) THEN Raise("TypeError")
    ELSE Return(a = b.text)

verify_webhook_signature(sec, data, signature) ==
    IF Falsy(sec) THEN Return(FALSE)
    ELSE compare_digest(expected_signature(sec.text, data), signature)

----------------------------------------------------------------------------
(* Event store: event_manager.py *)

\* A field of a JSON object: missing, null, or a value.
Missing(d) == [st |-> "missing", v |-> d]

Null(d) == [st |-> "null", v |-> d]

Val(x) == [st |-> "val", v |-> x]

NoRepo == [full_name |-> "", name |-> ""]

NoRelease == [tag_name |-> Missing("")]

\* payload.get(key, default) for a string-valued key, as formatted by an
\* f-string: a null value is formatted as "None".
GetStr(field, default) ==
    CASE field.st = "missing" -> default
      [] field.st = "null" -> "None"
      [] OTHER -> field.v

summarize_event(event_type, payload) ==
    IF payload.kind # "dict" THEN Raise("AttributeError")
    ELSE IF payload.repository.st = "null" THEN Raise("AttributeError")
    ELSE
    LET repo_info == IF payload.repository.st = "missing" THEN NoRepo
                     ELSE payload.repository.v
        repo_name == IF repo_info.full_name # "" THEN repo_info.full_name
                     ELSE IF repo_info.name # "" THEN repo_info.name
                     ELSE "unknown-repo"
    IN  CASE event_type = "push" ->
               IF payload.ref.st = "null" THEN Raise("AttributeError")
               ELSE IF payload.commits.st = "null" THEN Raise("TypeError")
               ELSE LET n == IF payload.commits.st = "missing" THEN 0
                             ELSE payload.commits.v
                        branch == Replace(GetStr(payload.ref, ""), "refs/heads/", "")
                    IN  Return("Pushed " \o ToString(n) \o " commits to "
                               \o branch \o " in " \o repo_name)
          [] event_type = "release" ->
               IF payload.release.st = "null" THEN Raise("AttributeError")
               ELSE LET release == IF payload.release.st = "missing" THEN NoRelease
                                   ELSE payload.release.v
                    IN  Return("Released version " \o GetStr(release.tag_name, "unknown")
                               \o " in " \o repo_name)
          [] event_type = "repository" ->
               Return("Repository " \o GetStr(payload.action, "updated")
                      \o ": " \o repo_name)
          [] event_type = "organization" ->
               Return("Organization " \o GetStr(payload.action, "updated"))
          [] OTHER -> Return(event_type \o " event occurred in " \o repo_name)

\* A day's file: absent, present but not readable as JSON, or a list of events.
Absent == [st |-> "absent", ev |-> <<>>]

Corrupt == [st |-> "corrupt", ev |-> <<>>]

Bucket(evs) == [st |-> "ok", ev |-> evs]

\* A day's file whose bytes are not UTF-8: a write that stopped inside a
\* character of several bytes. Reading it raises UnicodeDecodeError, a
\* ValueError that is neither json.JSONDecodeError nor IOError.
Garbled == [st |-> "garbled", ev |-> <<>>]

\* The outcomes of open(filename, 'w') followed by json.dump.
WriteOutcomes == {"ok", "open_fails", "dump_fails"}

\* The same with the dump stopping inside a character
CutWriteOutcomes == WriteOutcomes \cup {"dump_cut"}

\* json.dump(events, f, ensure_ascii=False) writes a character of several
\* bytes when an event holds non-ASCII text.
HasNonAscii(events) == \E i \in 1..Len(events) : ~IsAsciiText(events[i].payload)

save_event_overwrites(event_type, payload, body, fs, day, io) ==
    [exc |-> "",
     files |-> [fs EXCEPT ![day] =
                  Bucket(<<[type |-> event_type, timestamp |-> day,
                            summary |-> summarize_event(event_type, payload).val,
                            payload |-> body]>>)]]

\* save_event on day `day` (datetime.now() at the call), with the outcome
\* `io` of the write: the files afterwards and whether IOError was raised.
save_event(event_type, payload, body, fs, day, io) ==
    LET summary == summarize_event(event_type, payload) IN
    IF summary.exc # "" THEN [exc |-> summary.exc, files |-> fs]
    ELSE
    IF fs[day].st = "garbled" THEN [exc |-> "UnicodeDecodeError", files |-> fs]
    ELSE
    LET event_data == [type |-> event_type, timestamp |-> day,
                       summary |-> summary.val, payload |-> body]
        events == IF fs[day].st = "ok" THEN fs[day].ev ELSE <<>>
    IN  CASE io = "ok" ->
               [exc |-> "", files |-> [fs EXCEPT ![day] = Bucket(Append(events, event_data))]]
          [] io = "open_fails" ->
               [exc |-> "IOError", files |-> fs]
          [] io = "dump_cut" /\ HasNonAscii(Append(events, event_data)) ->
               [exc |-> "IOError", files |-> [fs EXCEPT ![day] = Garbled]]
          [] OTHER ->
               [exc |-> "IOError", files |-> [fs EXCEPT ![day] = Corrupt]]

\* os.path.exists of the day's file; no file is dated outside Days.
Exists(fs, date) == date \in Days /\ fs[date].st # "absent"

\* load_events(date): the list, or the exception that escapes its
\* `except (json.JSONDecodeError, IOError)`.
load_events_call(fs, date) ==
    IF ~Exists(fs, date) THEN Return(<<>>)
    ELSE CASE fs[date].st = "ok" -> Return(fs[date].ev)
           [] fs[date].st = "garbled" -> [exc |-> "UnicodeDecodeError", val |-> <<>>]
           [] OTHER -> Return(<<>>)

\* The events the scheduler has after load_events(date): its callers run it
\* inside `try: ... except Exception`, which ends the pass without events.
load_events(fs, date) == load_events_call(fs, date).val

----------------------------------------------------------------------------
(* Webhook processing: github_handler.py, app.py *)

supported_events_with_ping == {"push", "release", "repository", "organization", "ping"}

supported_events == {"push", "release", "repository", "organization"}

\* `event_type not in supported_events` for the X-GitHub-Event header
IsSupported(event_type) == event_type.present /\ event_type.text \in supported_events

process_webhook_event_unsaved(event_type, payload, body, fs, day, io) ==
    [val |-> IsSupported(event_type), files |-> fs]

process_webhook_event(event_type, payload, body, fs, day, io) ==
    IF ~IsSupported(event_type) THEN [val |-> FALSE, files |-> fs]
    ELSE LET s == save_event(event_type.text, payload, body, fs, day, io)
         IN  [val |-> s.exc = "", files |-> s.files]

Dict(repository, commits, ref, release, action) ==
    [kind |-> "dict", repository |-> repository, commits |-> commits, ref |-> ref,
     release |-> release, action |-> action]

EmptyDict == Dict(Missing(NoRepo), Missing(0), Missing(""), Missing(NoRelease), Missing(""))

get_json(body) ==
    CASE body = EmptyBody -> Return(EmptyDict)
      [] body = PushBody ->
           Return([EmptyDict EXCEPT !.ref = Val("refs/heads/main"), !.commits = Val(1)])
      [] body = AccentBody -> Return([EmptyDict EXCEPT !.ref = Val("refs/heads/ó")])
      [] body = NullBody -> Return([EmptyDict EXCEPT !.kind = "none"])
      [] OTHER -> Raise("BadRequest")

Response(status, msg) == [status |-> status, msg |-> msg]

NoResponse == Response(0, "")

\* POST /webhook of the package's app.py: the response and the files afterwards.
github_webhook(r, sec, fs, day, io) ==
    LET ok == verify_webhook_signature(sec, r.body, r.sig) IN
    IF ok.exc # "" THEN [resp |-> Response(500, "Internal server error"), files |-> fs]
    ELSE IF ~ok.val THEN [resp |-> Response(403, "Invalid signature"), files |-> fs]
    ELSE
    LET payload == get_json(r.body) IN
    IF payload.exc # "" THEN [resp |-> Response(500, "Internal server error"), files |-> fs]
    ELSE
    LET p == process_webhook_event(r.event, payload.val, r.body, fs, day, io) IN
    [resp |-> Response(200, IF p.val THEN "Event saved for daily summary"
                            ELSE "Event not handled"),
     files |-> p.files]

----------------------------------------------------------------------------
(* The legacy single-file handler: src/app.py *)

verify_github_webhook(sec, data, signature) ==
    IF ~sec.present THEN Raise("AttributeError")
    ELSE compare_digest(expected_signature(sec.text, data), signature)

\* What the language model returns for an event (generate_ai_content), and the
\* outcomes of the calls the handler makes.
AiTexts == {"post A", "post B"}

UrnOutcomes == {"200", "401", "ConnectionError"}

PostOutcomes == {"201", "400", "ConnectionError"}

NoLegacy == [generated |-> <<>>, posted |-> <<>>]

\* A post that sends its request twice
post_to_linkedin_twice(content, urn, post) ==
    CASE urn = "ConnectionError" -> [exc |-> "ConnectionError", val |-> FALSE, posted |-> <<>>]
      [] urn = "401" -> [exc |-> "", val |-> FALSE, posted |-> <<>>]
      [] OTHER -> [exc |-> "", val |-> post = "201", posted |-> <<content, content>>]

\* post_to_linkedin(content): the requests made and the result.
post_to_linkedin(content, urn, post) ==
    CASE urn = "ConnectionError" -> [exc |-> "ConnectionError", val |-> FALSE, posted |-> <<>>]
      [] urn = "401" -> [exc |-> "", val |-> FALSE, posted |-> <<>>]
      [] post = "ConnectionError" ->
           [exc |-> "ConnectionError", val |-> FALSE, posted |-> <<content>>]
      [] OTHER -> [exc |-> "", val |-> post = "201", posted |-> <<content>>]

legacy_supported == {"push", "release", "repository", "organization"}

legacy_github_webhook(r, sec, ai, urn, post) ==
    LET ok == verify_github_webhook(sec, r.body, r.sig) IN
    IF ok.exc # "" THEN [resp |-> Response(500, "Internal server error"), calls |-> NoLegacy]
    ELSE IF ~ok.val THEN [resp |-> Response(403, "Invalid signature"), calls |-> NoLegacy]
    ELSE
    LET payload == get_json(r.body) IN
    IF payload.exc # "" THEN [resp |-> Response(500, "Internal server error"), calls |-> NoLegacy]
    ELSE IF r.event.present /\ r.event.text \in legacy_supported
    THEN LET gen == [generated |-> <<r.event.text>>, posted |-> <<>>] IN
         IF ai.exc # "" THEN [resp |-> Response(500, "Internal server error"), calls |-> gen]
         ELSE LET success == post_to_linkedin(ai.val, urn, post)
                  calls == [gen EXCEPT !.posted = success.posted]
              IN  IF success.exc # ""
                  THEN [resp |-> Response(500, "Internal server error"), calls |-> calls]
                  ELSE IF success.val
                  THEN [resp |-> Response(200, "Posted to LinkedIn"), calls |-> calls]
                  ELSE [resp |-> Response(500, "Failed to post to LinkedIn"), calls |-> calls]
    ELSE [resp |-> Response(200, "Event not handled"), calls |-> NoLegacy]

----------------------------------------------------------------------------
(* Publisher: linkedin_poster.py *)

\* The outcomes of a direct send (identity lookup, then the post request) and
\* of a relay send: the status answered, or the exception raised.
\* What an identity endpoint answers: 200 with a JSON object holding an id,
\* 200 with a JSON object without one, 200 with JSON that is not an object,
\* an error status, or no answer.
IdentityOutcomes == {"id", "no_id", "not_object", "401", "ConnectionError"}

\* A lookup that keeps no result: every call asks the endpoints.
get_person_urn_uncached(cached, v3, v2) ==
    IF v3 = "id" \/ v2 = "id"
    THEN [exc |-> "", val |-> "urn:li:person:abc", calls |-> <<"v3">>, person_urn |-> cached]
    ELSE [exc |-> "ValueError", val |-> "", calls |-> <<"v3", "v2">>,
          person_urn |-> cached]

\* get_person_urn(): the cached identity if there is one; else the v3 API,
\* then the v2 API when v3 raised a RequestException or gave no id. `calls`
\* lists the APIs asked. data.get('id') on JSON that is not an object raises
\* AttributeError, which no except clause of the function covers.
get_person_urn(cached, v3, v2) ==
    LET urn == "urn:li:person:abc" IN
    IF ~Falsy(cached)
    THEN [exc |-> "", val |-> cached.text, calls |-> <<>>, person_urn |-> cached]
    ELSE CASE v3 = "id" ->
                [exc |-> "", val |-> urn, calls |-> <<"v3">>, person_urn |-> Str(urn)]
           [] v3 = "not_object" ->
                [exc |-> "AttributeError", val |-> "", calls |-> <<"v3">>,
                 person_urn |-> cached]
           [] v2 = "id" ->
                [exc |-> "", val |-> urn, calls |-> <<"v3", "v2">>, person_urn |-> Str(urn)]
           [] v2 = "not_object" ->
                [exc |-> "AttributeError", val |-> "", calls |-> <<"v3", "v2">>,
                 person_urn |-> cached]
           [] OTHER ->
                [exc |-> "ValueError", val |-> "", calls |-> <<"v3", "v2">>,
                 person_urn |-> cached]

DirectOutcomes == {"201", "200", "400", "ConnectionError", "ValueError"}

RelayOutcomes == {"200", "500", "ConnectionError"}

\* post_content(content): raise_for_status() accepts every status below 400;
\* HTTPError, RequestException and ValueError are reported as False.
post_content(content, outcome) == outcome \in {"201", "200"}

\* send_to_pipedream(content, events)
send_to_pipedream(content, events, outcome) == outcome = "200"

Send(method, content, events) == [method |-> method, content |-> content, events |-> events]

\* A send that is always direct, whatever the configuration
send_always_direct(content, events, outcome) ==
    [call |-> Send("direct", content, <<>>), val |-> post_content(content, outcome)]

\* The send review_and_post makes with the configured method: the call made and
\* its result.
send_configured(content, events, outcome) ==
    IF cfg.USE_PIPEDREAM
    THEN [call |-> Send("relay", content, events),
          val |-> send_to_pipedream(content, events, outcome)]
    ELSE [call |-> Send("direct", content, <<>>),
          val |-> post_content(content, outcome)]

SendOutcomes == IF cfg.USE_PIPEDREAM THEN RelayOutcomes ELSE DirectOutcomes

separator == "=================================================="

instruction ==
    "To approve this post, edit this file and change 'APPROVE=false' to 'APPROVE=true'"

\* s.split('\n')
RECURSIVE Split(_)
Split(s) ==
    LET i == Find(s, "\n", 1) IN
    IF i = 0 THEN <<s>>
    ELSE <<SubSeq(s, 1, i - 1)>> \o Split(SubSeq(s, i + 1, Len(s)))

\* '\n'.join(lines)
RECURSIVE Join(_)
Join(lines) ==
    IF lines = <<>> THEN ""
    ELSE IF Len(lines) = 1 THEN lines[1]
    ELSE lines[1] \o "\n" \o Join(Tail(lines))

Whitespace == {" ", "\n", "\t", "\r"}

\* s.strip()
RECURSIVE Strip(_)
Strip(s) ==
    IF Len(s) = 0 THEN s
    ELSE IF SubSeq(s, 1, 1) \in Whitespace THEN Strip(SubSeq(s, 2, Len(s)))
    ELSE IF SubSeq(s, Len(s), Len(s)) \in Whitespace THEN Strip(SubSeq(s, 1, Len(s) - 1))
    ELSE s

\* The text review_and_post writes to review_<timestamp>.txt, held as its
\* lines: the file's content is Join of them, and file_content.split('\n')
\* gives them back.
review_lines(content, now) ==
    <<"LinkedIn Post Review",
      "Generated at: day " \o ToString(now),
      "Content length: " \o ToString(Len(content)) \o " characters",
      "Posting method: " \o (IF cfg.USE_PIPEDREAM THEN "Pipedream" ELSE "Direct LinkedIn"),
      "",
      separator>>
    \o Split(content)
    \o <<separator, "", instruction, "APPROVE=false", "">>

\* The loop of review_and_post over the lines of the approved file
RECURSIVE content_lines(_, _, _, _)
content_lines(lines, i, in_content, acc) ==
    IF i > Len(lines) THEN acc
    ELSE LET line == lines[i] IN
         IF StartsWith(line, "=") /\ ~in_content
         THEN content_lines(lines, i + 1, TRUE, acc)
         ELSE IF StartsWith(line, "=") /\ in_content THEN acc
         ELSE IF in_content /\ ~StartsWith(line, "APPROVE=")
         THEN content_lines(lines, i + 1, in_content, Append(acc, line))
         ELSE content_lines(lines, i + 1, in_content, acc)

clean_content(lines) == Strip(Join(content_lines(lines, 1, FALSE, <<>>)))

\* `'APPROVE=true' in file_content`: the text sought holds no line break, so
\* it is in the content exactly when it is in one of the lines.
approved(lines) == \E i \in 1..Len(lines) : Contains(lines[i], "APPROVE=true")

max_attempts == 12

NoFile == [st |-> "absent", lines |-> <<>>]

\* review_and_post between calls
IdleReview ==
    [pc |-> "idle", file |-> NoFile, attempts |-> 0, content |-> "", events |-> <<>>,
     sends |-> <<>>, flag_set |-> FALSE, result |-> Return(FALSE)]

\* A call that does not come back to its caller when it raises
Finished_unless_raised(r, result) ==
    IF result.exc # "" THEN [r EXCEPT !.pc = "raised", !.result = result]
    ELSE [r EXCEPT !.pc = "done", !.result = result]

Finished(r, result) == [r EXCEPT !.pc = "done", !.result = result]

\* review_and_post(content, events) up to its first wait: the send when no
\* review is required, else the review file written (`io`: whether open and
\* write succeed).
review_and_post(content, events, now, io, outcome) ==
    LET call == [IdleReview EXCEPT !.content = content, !.events = events] IN
    IF ~cfg.REQUIRE_POST_REVIEW
    THEN LET s == send_configured(content, events, outcome) IN
         Finished([call EXCEPT !.sends = <<s.call>>], Return(s.val))
    ELSE IF io # "ok" THEN Finished(call, Raise("IOError"))
    ELSE [call EXCEPT !.pc = "poll",
                      !.file = [st |-> "pending", lines |-> review_lines(content, now)]]

RenameOutcomes == {"ok", "FileNotFoundError", "OSError"}

\* What one pass of the approval loop reads: whether the file is there,
\* whether it holds the approval, and the content it then extracts.
review_read(r) ==
    IF r.file.st # "pending" THEN [found |-> FALSE, approved |-> FALSE, content |-> ""]
    ELSE IF approved(r.file.lines)
    THEN [found |-> TRUE, approved |-> TRUE, content |-> clean_content(r.file.lines)]
    ELSE [found |-> TRUE, approved |-> FALSE, content |-> ""]

\* One pass of the `while attempts < max_attempts` loop, given what it read:
\* if approved, the content is sent and the file renamed; else the call sleeps
\* and counts the attempt. After the last attempt the call returns False.
review_poll(r, read, outcome, rename) ==
    IF ~read.found THEN Finished(r, Return(FALSE))
    ELSE IF read.approved
    THEN LET s == send_configured(read.content, r.events, outcome)
             sent == [r EXCEPT !.sends = Append(@, s.call)]
         IN  CASE rename = "ok" ->
                    Finished([sent EXCEPT !.file.st = "archived"], Return(s.val))
               [] rename = "FileNotFoundError" ->
                    Finished([sent EXCEPT !.file = NoFile], Return(FALSE))
               [] OTHER -> Finished(sent, Raise("OSError"))
    ELSE IF r.attempts + 1 < max_attempts
    THEN [r EXCEPT !.attempts = @ + 1]
    ELSE Finished([r EXCEPT !.attempts = @ + 1], Return(FALSE))

\* What someone else does to the pending review file: sets the flag line to
\* APPROVE=true, cuts the instruction line out, or deletes the file.
Edits == {"approve", "cut_instruction", "delete"}

edit(r, e) ==
    CASE e = "approve" ->
           [r EXCEPT !.file.lines = [i \in DOMAIN @ |->
                                       IF @[i] = "APPROVE=false" THEN "APPROVE=true"
                                       ELSE @[i]],
                     !.flag_set = TRUE]
      [] e = "cut_instruction" ->
           [r EXCEPT !.file.lines = SelectSeq(@, LAMBDA line : line # instruction)]
      [] OTHER -> [r EXCEPT !.file = NoFile]

----------------------------------------------------------------------------
(* Content generator: ai_processor.py *)

\* The orders in which the elements of a set may be listed
RECURSIVE Orders(_)
Orders(S) ==
    IF S = {} THEN {<<>>}
    ELSE UNION {{<<x>> \o o : o \in Orders(S \ {x})} : x \in S}

\* ', '.join(items)
RECURSIVE JoinComma(_)
JoinComma(items) ==
    IF items = <<>> THEN ""
    ELSE IF Len(items) = 1 THEN items[1]
    ELSE items[1] \o ", " \o JoinComma(Tail(items))

EventTypes(events) == {events[i].type : i \in 1..Len(events)}

\* generate_daily_summary(events): the model's answer `llm`, or on any failure
\* the templated sentence, its types listed in the set's order `order`.
generate_daily_summary(events, llm, order) ==
    IF llm.exc = "" THEN llm.val
    ELSE "Today we had " \o ToString(Len(events)) \o " GitHub activities including "
         \o JoinComma(order) \o ". Great progress on our projects!"

\* A generator without its fallback: a failure of the model call is raised.
generate_daily_summary_unguarded(events, llm, order) ==
    IF \E i \in 1..Len(events) : ~({"type", "summary"} \subseteq DOMAIN events[i])
    THEN Raise("KeyError")
    ELSE IF llm.exc # "" THEN Raise(llm.exc)
    ELSE Return(llm.val)

\* generate_daily_summary(events) as a call: the text of the events is built
\* before the try, from event['type'] and event['summary'] of every event.
generate_daily_summary_call(events, llm, order) ==
    IF \E i \in 1..Len(events) : ~({"type", "summary"} \subseteq DOMAIN events[i])
    THEN Raise("KeyError")
    ELSE Return(generate_daily_summary(events, llm, order))

----------------------------------------------------------------------------
(* Event store: archiving *)

archive_events_keeps_source(fs, ps, date, rename) ==
    IF ~Exists(fs, date) THEN [val |-> FALSE, files |-> fs, posted |-> ps]
    ELSE [val |-> TRUE, files |-> fs, posted |-> [ps EXCEPT ![date] = fs[date]]]

archive_events_never(fs, ps, date, rename) == [val |-> FALSE, files |-> fs, posted |-> ps]

\* archive_events(date): os.rename of the day's file to its posted name
\* (`rename`: "ok" or the OSError it raises); the result and the files.
archive_events(fs, ps, date, rename) ==
    IF ~Exists(fs, date) THEN [val |-> FALSE, files |-> fs, posted |-> ps]
    ELSE IF rename = "ok"
    THEN [val |-> TRUE,
          files |-> [fs EXCEPT ![date] = Absent],
          posted |-> [ps EXCEPT ![date] = fs[date]]]
    ELSE [val |-> FALSE, files |-> fs, posted |-> ps]

----------------------------------------------------------------------------
(* Scheduler: scheduler.py *)

\* range(1, 8) of check_for_missed_posts
lookback == 7

\* The daily job between runs. date and events are those of the last bucket
\* loaded for a publish, success what review_and_post gave for it: "none"
\* before it returns, "True", "False", or "raised".
IdleJob ==
    [pc |-> "idle", days_back |-> 0, date |-> 0, events |-> <<>>, success |-> "none",
     last_run |-> -1]

\* The locals of a pass that publishes nothing
NoPublish(j) == [j EXCEPT !.date = 0, !.events = <<>>, !.success = "none"]

\* success as the scheduler holds it
Success(result) ==
    IF result.exc # "" THEN "raised" ELSE IF result.val THEN "True" ELSE "False"

\* `if events:` and `if not events:`
has_events_always(events) == TRUE

has_events(events) == events # <<>>

\* A sweep without its try/except: a pass whose publish failed or raised ends
\* the whole job.
next_day_unless_failed(j) ==
    IF j.success \in {"False", "raised"} THEN [j EXCEPT !.pc = "idle", !.days_back = 0]
    ELSE IF j.days_back < lookback /\ j.days_back < MaxDay
    THEN [j EXCEPT !.pc = "sweep", !.days_back = @ + 1]
    ELSE [j EXCEPT !.pc = "today", !.days_back = 0]

\* The next pass of `for days_back in range(1, 8)`, or today's processing.
\* No file is dated before day 0, so the passes left once days_back has
\* reached MaxDay find nothing and are taken together.
next_day(j) ==
    IF j.days_back < lookback /\ j.days_back < MaxDay
    THEN [j EXCEPT !.pc = "sweep", !.days_back = @ + 1]
    ELSE [j EXCEPT !.pc = "today", !.days_back = 0]

\* The next pass of `for days_back in range(1, 8)` with every pass followed,
\* for a clock that goes on past the horizon of the sweep
next_pass_of_eight(j) ==
    IF j.days_back < lookback + 1
    THEN [j EXCEPT !.pc = "sweep", !.days_back = @ + 1]
    ELSE [j EXCEPT !.pc = "today", !.days_back = 0]

next_pass(j) ==
    IF j.days_back < lookback
    THEN [j EXCEPT !.pc = "sweep", !.days_back = @ + 1]
    ELSE [j EXCEPT !.pc = "today", !.days_back = 0]

\* The loop with all its passes (`whole`), or with the passes that find no
\* file taken together
loop_step(j, whole) == IF whole THEN next_pass(j) ELSE next_day(j)

\* events_<date>.json exists and posted_events_<date>.json does not
missed(fs, ps, check_date) == Exists(fs, check_date) /\ ~Exists(ps, check_date)

handle_posting_result_always(success, fs, ps, date, rename) ==
    archive_events(fs, ps, date, rename)

\* _handle_posting_result, and the same lines of check_for_missed_posts:
\* archive on success, nothing otherwise; the result of archive is not used.
handle_posting_result(success, fs, ps, date, rename) ==
    IF success THEN archive_events(fs, ps, date, rename)
    ELSE [val |-> FALSE, files |-> fs, posted |-> ps]

----------------------------------------------------------------------------
(* Initial values shared by the specifications *)

NoCall == [called |-> FALSE, data |-> "", signature |-> NoneStr, out |-> Return(FALSE)]

NoRequest == [handler |-> "", body |-> "", sig |-> NoneStr, event |-> NoneStr]

InitStore ==
    /\ today = 0
    /\ files = [d \in Days |-> Absent]
    /\ posted = [d \in Days |-> Absent]

\* Two request threads of the server, each handling one webhook at a time
Threads == {1, 2}

\* A thread that is not in save_event
NoSave == [pc |-> "idle", type |-> "", body |-> "", date |-> 0, read |-> Absent,
          exc |-> ""]

\* No store or send function called yet
NoOp == [op |-> "", date |-> 0, type |-> "", body |-> "", content |-> "", events |-> <<>>,
         urn |-> "", outcome |-> "", args |-> <<>>, msg |-> "", out |-> Return(FALSE)]

InitHttp ==
    /\ vcall = NoCall
    /\ fcall = NoOp
    /\ req = NoRequest
    /\ resp = NoResponse
    /\ legacy = NoLegacy

\* The defaults of config.py: review required, no relay URL.
DefaultConfig == [REQUIRE_POST_REVIEW |-> TRUE, USE_PIPEDREAM |-> FALSE]

InitPublisher ==
    /\ rv = IdleReview
    /\ job = IdleJob
    /\ person_urn = NoneStr
    /\ savers = [t \in Threads |-> NoSave]

\* The number of events held by the active buckets
RECURSIVE Stored(_, _)
Stored(fs, d) ==
    IF d < 0 THEN 0 ELSE Len(fs[d].ev) + Stored(fs, d - 1)

\* datetime.now() moves to the next calendar day.
Tick ==
    /\ today < MaxDay
    /\ today' = today + 1
    /\ UNCHANGED <<app, secret, vcall, fcall, req, resp, legacy, files, posted, cfg, rv, job, person_urn, savers>>

----------------------------------------------------------------------------
(* The verifier called on its own *)

VerifySecrets == Secrets \cup {NoneStr, Str("")}

Verify(data, signature) ==
    /\ vcall' = [called |-> TRUE, data |-> data, signature |-> signature,
                 out |-> verify_webhook_signature(secret, data, signature)]
    /\ UNCHANGED <<app, secret, fcall, req, resp, legacy, today, files, posted, cfg, rv, job, person_urn, savers>>

InitVerify ==
    /\ app = "package"
    /\ secret \in VerifySecrets
    /\ cfg = DefaultConfig
    /\ InitHttp /\ InitStore /\ InitPublisher

NextVerify == \E data \in Bodies, signature \in Signatures : Verify(data, signature)

SpecVerify == InitVerify /\ [][NextVerify]_vars

----------------------------------------------------------------------------
(* The HTTP front door *)

EventHeaders == {NoneStr, Str("ping"), Str("push"), Str("release"),
                 Str("repository"), Str("organization")}

\* The signature headers a request for `body` is sent with: none, a wrong
\* digest, non-ASCII text, the signature of another body, and the right one.
RequestSignatures(sec, body) ==
    {NoneStr, Str("sha256=invalid"), Str("sha256=ó"),
     Str(expected_signature(sec.text, IF body = EmptyBody THEN PushBody ELSE EmptyBody)),
     Str(expected_signature(sec.text, body))}

Requests(sec) ==
    UNION {[body : {b}, sig : RequestSignatures(sec, b), event : EventHeaders] : b \in Bodies}

\* The write outcomes to try for a request: a request of an unsupported type
\* writes nothing.
WritesOf(r) == IF IsSupported(r.event) THEN WriteOutcomes ELSE {"ok"}

Webhook(r) ==
    /\ app = "package"
    /\ Stored(files, MaxDay) < MaxSaved
    /\ req' = [handler |-> "package", body |-> r.body, sig |-> r.sig, event |-> r.event]
    /\ \E io \in WritesOf(r) :
         LET out == github_webhook(r, secret, files, today, io) IN
         /\ resp' = out.resp
         /\ files' = out.files
    /\ UNCHANGED <<app, secret, vcall, fcall, legacy, today, posted, cfg, rv, job, person_urn, savers>>

InitWebhook ==
    /\ app \in {"package", "legacy"}
    /\ secret = Str("s1")
    /\ cfg = DefaultConfig
    /\ InitHttp /\ InitStore /\ InitPublisher

\* The outcomes of the legacy handler's outbound calls: the model's answer, the
\* identity lookup and the post request.
LegacyOutcomes ==
    {[ai |-> Raise("APIError"), urn |-> "200", post |-> "201"]}
    \cup [ai : {Return(t) : t \in AiTexts}, urn : {"401", "ConnectionError"}, post : {"201"}]
    \cup [ai : {Return(t) : t \in AiTexts}, urn : {"200"}, post : PostOutcomes]

\* The outcomes to try for a request: a request of a type the handler ignores
\* makes no outbound call.
LegacyOutcomesOf(r) ==
    IF r.event.present /\ r.event.text \in legacy_supported THEN LegacyOutcomes
    ELSE {[ai |-> Raise("APIError"), urn |-> "200", post |-> "201"]}

LegacyWebhook(r) ==
    /\ app = "legacy"
    /\ req' = [handler |-> "legacy", body |-> r.body, sig |-> r.sig, event |-> r.event]
    /\ \E o \in LegacyOutcomesOf(r) :
         LET out == legacy_github_webhook(r, secret, o.ai, o.urn, o.post) IN
         /\ resp' = out.resp
         /\ legacy' = out.calls
    /\ UNCHANGED <<app, secret, vcall, fcall, today, files, posted, cfg, rv, job, person_urn, savers>>

NextWebhook ==
    \/ \E r \in Requests(secret) : Webhook(r)
    \/ \E r \in Requests(secret) : LegacyWebhook(r)

SpecWebhook == InitWebhook /\ [][NextWebhook]_vars

----------------------------------------------------------------------------
(* The event store called on its own *)

StoreTypes == {"push", "release"}

StoreBodies == {EmptyBody, AccentBody}

\* EventManager.save_event(event_type, payload) for the payload of `body`,
\* its write ending as `io`
Save(event_type, body, io) ==
    /\ Stored(files, MaxDay) + Stored(posted, MaxDay) < MaxSaved
    /\ LET s == save_event(event_type, get_json(body).val, body, files, today, io) IN
       /\ files' = s.files
       /\ fcall' = [NoOp EXCEPT !.op = "save", !.date = today, !.type = event_type,
                                !.body = body, !.outcome = io,
                                !.out = [exc |-> s.exc, val |-> FALSE]]
    /\ UNCHANGED <<app, secret, vcall, req, resp, legacy, today, posted, cfg, rv, job, person_urn, savers>>

\* EventManager.load_events(date)
Load(date) ==
    /\ fcall' = [NoOp EXCEPT !.op = "load", !.date = date,
                             !.out = load_events_call(files, date)]
    /\ UNCHANGED <<app, secret, vcall, req, resp, legacy, today, files, posted, cfg, rv, job, person_urn, savers>>

\* EventManager.archive_events(date), its rename ending as `rename`
Archive(date, rename) ==
    /\ LET a == archive_events(files, posted, date, rename) IN
       /\ files' = a.files
       /\ posted' = a.posted
       /\ fcall' = [NoOp EXCEPT !.op = "archive", !.date = date, !.outcome = rename,
                                !.out = Return(a.val)]
    /\ UNCHANGED <<app, secret, vcall, req, resp, legacy, today, cfg, rv, job, person_urn, savers>>

InitStoreCalls ==
    /\ app = "package"
    /\ secret = Str("s1")
    /\ cfg = DefaultConfig
    /\ InitHttp /\ InitStore /\ InitPublisher

NextStore ==
    \/ \E event_type \in StoreTypes, body \in StoreBodies, io \in CutWriteOutcomes :
         Save(event_type, body, io)
    \/ \E date \in Days : Load(date)
    \/ \E date \in Days, rename \in {"ok", "OSError"} : Archive(date, rename)

SpecStore == InitStoreCalls /\ [][NextStore]_vars

----------------------------------------------------------------------------
(* Concurrent calls of save_event *)

\* A save that reads the bucket again when it writes, as under a lock
save_write_locked(sv, fs, io) ==
    save_event(sv.type, get_json(sv.body).val, sv.body, fs, sv.date, io)

\* The second half of save_event, from events.append on: the thread appends
\* to the list it read and writes it over whatever the file holds by then.
save_write(sv, fs, io) ==
    LET view == [fs EXCEPT ![sv.date] = sv.read]
        s == save_event(sv.type, get_json(sv.body).val, sv.body, view, sv.date, io)
    IN  IF s.files = view THEN [exc |-> s.exc, files |-> fs]
        ELSE [exc |-> s.exc, files |-> [fs EXCEPT ![sv.date] = s.files[sv.date]]]

\* Thread t enters save_event: the date, the event and the read of the bucket
SaveRead(t, event_type, body) ==
    /\ savers[t].pc \in {"idle", "done"}
    /\ Stored(files, MaxDay) + Cardinality({u \in Threads : savers[u].pc = "read"})
          < MaxSaved
    /\ savers' = [savers EXCEPT ![t] = [pc |-> "read", type |-> event_type, body |-> body,
                                        date |-> today, read |-> files[today],
                                        exc |-> ""]]
    /\ UNCHANGED <<app, secret, vcall, fcall, req, resp, legacy, today, files, posted, cfg, rv, job, person_urn>>

\* Thread t appends and writes
SaveWrite(t, io) ==
    /\ savers[t].pc = "read"
    /\ LET w == save_write(savers[t], files, io) IN
       /\ files' = w.files
       /\ savers' = [savers EXCEPT ![t].pc = "done", ![t].exc = w.exc]
    /\ UNCHANGED <<app, secret, vcall, fcall, req, resp, legacy, today, posted, cfg, rv, job, person_urn>>

NextRace ==
    \/ \E t \in Threads, event_type \in StoreTypes, body \in StoreBodies :
          SaveRead(t, event_type, body)
    \/ \E t \in Threads, io \in CutWriteOutcomes : SaveWrite(t, io)

SpecRace == InitStoreCalls /\ [][NextRace]_vars

----------------------------------------------------------------------------
(* Configuration: config.py *)

\* What os.getenv gives for a variable: None, the empty string or a value
EnvValues == {NoneStr, Str(""), Str("x")}

\* The class attributes validate_config reads; USE_PIPEDREAM is
\* bool(PIPEDREAM_WEBHOOK_URL).
Configs ==
    {c \in [GITHUB_TOKEN : EnvValues, GITHUB_WEBHOOK_SECRET : EnvValues,
            GROQ_API_KEY : EnvValues, LINKEDIN_ACCESS_TOKEN : EnvValues,
            PIPEDREAM_WEBHOOK_URL : EnvValues, USE_PIPEDREAM : BOOLEAN] :
        c.USE_PIPEDREAM = ~Falsy(c.PIPEDREAM_WEBHOOK_URL)}

required_vars(c) ==
    <<"GITHUB_TOKEN", "GITHUB_WEBHOOK_SECRET", "GROQ_API_KEY">>
    \o (IF ~c.USE_PIPEDREAM THEN <<"LINKEDIN_ACCESS_TOKEN">> ELSE <<>>)

\* [var for var in required_vars if not getattr(cls, var)]
missing_vars(c) == SelectSeq(required_vars(c), LAMBDA var : Falsy(c[var]))

\* Config.validate_config(): True, or ValueError with its message
validate_config(c) ==
    LET missing == missing_vars(c) IN
    IF missing # <<>>
    THEN [exc |-> "ValueError", val |-> FALSE,
          msg |-> "Missing required environment variables: " \o JoinComma(missing)]
    ELSE [exc |-> "", val |-> TRUE, msg |-> ""]

ValidateConfig(c) ==
    /\ LET v == validate_config(c) IN
       fcall' = [NoOp EXCEPT !.op = "validate_config", !.args = c, !.msg = v.msg,
                             !.out = [exc |-> v.exc, val |-> v.val]]
    /\ UNCHANGED <<app, secret, vcall, req, resp, legacy, today, files, posted, cfg, rv, job, person_urn, savers>>

InitConfig ==
    /\ app = "package"
    /\ secret = Str("s1")
    /\ cfg = DefaultConfig
    /\ InitHttp /\ InitStore /\ InitPublisher

NextConfig == \E c \in Configs : ValidateConfig(c)

SpecConfig == InitConfig /\ [][NextConfig]_vars

----------------------------------------------------------------------------
(* The sends called on their own *)

MaxEvents == 11

preview_cap == 10

\* events[:10]
Preview(events) ==
    SubSeq(events, 1, IF Len(events) < preview_cap THEN Len(events) ELSE preview_cap)

\* The JSON document send_to_pipedream posts (its timestamp left out; the
\* order of event_types, a list made from a set, is not fixed by the code).
pipedream_payload(content, events) ==
    [event_type |-> "daily_summary",
     content |-> content,
     stats |-> [total_events |-> Len(events), event_types |-> EventTypes(events)],
     events_summary |->
        [i \in 1..Len(Preview(events)) |->
            [type |-> events[i].type, summary |-> events[i].summary,
             timestamp |-> events[i].timestamp]]]

\* A bucket of n events, pushes and releases in turn
SomeEvents(n) ==
    [i \in 1..n |->
        [type |-> IF i % 2 = 1 THEN "push" ELSE "release", timestamp |-> 0,
         summary |-> summarize_event(IF i % 2 = 1 THEN "push" ELSE "release",
                                     get_json(EmptyBody).val).val,
         payload |-> EmptyBody]]

SendContents == {"Shipped v1", "one\ntwo", ""}

\* linkedin_poster.post_content(content)
PostContent(content, outcome) ==
    /\ fcall' = [NoOp EXCEPT !.op = "post_content", !.content = content,
                             !.outcome = outcome,
                             !.out = Return(post_content(content, outcome))]
    /\ UNCHANGED <<app, secret, vcall, req, resp, legacy, today, files, posted, cfg, rv, job, person_urn, savers>>

\* linkedin_poster.send_to_pipedream(content, events)
SendToPipedream(content, events, outcome) ==
    /\ fcall' = [NoOp EXCEPT !.op = "send_to_pipedream", !.content = content,
                             !.events = events, !.outcome = outcome,
                             !.out = Return(send_to_pipedream(content, events, outcome))]
    /\ UNCHANGED <<app, secret, vcall, req, resp, legacy, today, files, posted, cfg, rv, job, person_urn, savers>>

\* post_to_linkedin(content) of the legacy handler
PostToLinkedin(content, urn, post) ==
    /\ LET p == post_to_linkedin(content, urn, post) IN
       fcall' = [NoOp EXCEPT !.op = "post_to_linkedin", !.content = content,
                             !.urn = urn, !.outcome = post,
                             !.out = [exc |-> p.exc, val |-> p.val]]
    /\ UNCHANGED <<app, secret, vcall, req, resp, legacy, today, files, posted, cfg, rv, job, person_urn, savers>>

\* linkedin_poster.get_person_urn()
GetPersonUrn(v3, v2) ==
    /\ LET u == get_person_urn(person_urn, v3, v2) IN
       /\ person_urn' = u.person_urn
       /\ fcall' = [NoOp EXCEPT !.op = "get_person_urn",
                                !.type = IF Falsy(person_urn) THEN "" ELSE "cached",
                                !.events = u.calls, !.urn = v3, !.outcome = v2,
                                !.out = [exc |-> u.exc, val |-> u.exc = ""]]
    /\ UNCHANGED <<app, secret, vcall, req, resp, legacy, today, files, posted, cfg, rv, job, savers>>

InitSend ==
    /\ app \in {"package", "legacy"}
    /\ secret = Str("s1")
    /\ cfg = DefaultConfig
    /\ InitHttp /\ InitStore /\ InitPublisher

NextSend ==
    \/ \E content \in SendContents, outcome \in DirectOutcomes :
          app = "package" /\ PostContent(content, outcome)
    \/ \E content \in SendContents, n \in 0..MaxEvents, outcome \in RelayOutcomes :
          app = "package" /\ SendToPipedream(content, SomeEvents(n), outcome)
    \/ \E content \in SendContents, urn \in UrnOutcomes, post \in PostOutcomes :
          app = "legacy" /\ PostToLinkedin(content, urn, post)
    \/ \E v3 \in IdentityOutcomes, v2 \in IdentityOutcomes :
          app = "package" /\ GetPersonUrn(v3, v2)

SpecSend == InitSend /\ [][NextSend]_vars

----------------------------------------------------------------------------
(* The content generator called on its own *)

\* A bucket of n releases
Releases(n) ==
    [i \in 1..n |->
        [type |-> "release", timestamp |-> 0,
         summary |-> summarize_event("release", get_json(EmptyBody).val).val,
         payload |-> EmptyBody]]

\* The event lists the store hands to the generator
SummaryEvents ==
    {SomeEvents(n) : n \in 0..MaxEvents} \cup {Releases(n) : n \in 1..MaxEvents}

\* The model call: its stripped answer, or what the try block raises (no
\* key configured, the API call failing, an answer without content).
SummaryLlmOutcomes ==
    {Return("summary"), Return(""), Raise("ValueError"), Raise("APIError"),
     Raise("AttributeError")}

GenerateDailySummary(events, llm, order) ==
    /\ fcall' = [NoOp EXCEPT !.op = "generate_daily_summary", !.events = events,
                             !.outcome = llm.exc,
                             !.content = IF llm.exc = "" THEN llm.val ELSE "",
                             !.out = generate_daily_summary_call(events, llm, order)]
    /\ UNCHANGED <<app, secret, vcall, req, resp, legacy, today, files, posted, cfg, rv, job, person_urn, savers>>

NextSummary ==
    \E events \in SummaryEvents, llm \in SummaryLlmOutcomes :
       \E order \in Orders(EventTypes(events)) :
          GenerateDailySummary(events, llm, order)

SpecSummary == InitConfig /\ [][NextSummary]_vars

----------------------------------------------------------------------------
(* summarize_event called on its own *)

SummarizeTypes == {"push", "release", "repository", "organization", "ping"}

\* Payload records: every field missing, null or present
Payloads ==
    {Dict(repository, commits, ref, release, action) :
        repository \in {Missing(NoRepo), Null(NoRepo), Val(NoRepo),
                        Val([full_name |-> "o/r", name |-> "r"]),
                        Val([full_name |-> "", name |-> "r"])},
        commits \in {Missing(0), Null(0), Val(0), Val(2)},
        ref \in {Missing(""), Null(""), Val("refs/heads/main"),
                 Val("refs/heads/refs/heads/x")},
        release \in {Missing(NoRelease), Null(NoRelease), Val(NoRelease),
                     Val([tag_name |-> Val("v1")]), Val([tag_name |-> Null("")])},
        action \in {Missing(""), Null(""), Val("created")}}

\* The call of summarize_event on the arguments drawn
SummarizeEvent ==
    /\ fcall.op = "arguments"
    /\ fcall' = [fcall EXCEPT !.op = "summarize_event",
                              !.out = summarize_event(fcall.type, fcall.args)]
    /\ UNCHANGED <<app, secret, vcall, req, resp, legacy, today, files, posted, cfg, rv, job, person_urn, savers>>

InitSummarize ==
    /\ app = "package"
    /\ secret = Str("s1")
    /\ cfg = DefaultConfig
    /\ vcall = NoCall /\ req = NoRequest /\ resp = NoResponse /\ legacy = NoLegacy
    /\ \E event_type \in SummarizeTypes, payload \in Payloads :
         fcall = [NoOp EXCEPT !.op = "arguments", !.type = event_type, !.args = payload]
    /\ InitStore /\ InitPublisher

NextSummarize == SummarizeEvent

SpecSummarize == InitSummarize /\ [][NextSummarize]_vars

----------------------------------------------------------------------------
(* The review gate on its own *)

\* One pass of the approval loop of the publish in progress
\* The outcomes that matter to the first part of review_and_post: of the
\* write of the review file when a review is required, of the send when not.
ReviewWrites == IF cfg.REQUIRE_POST_REVIEW THEN {"ok", "IOError"} ELSE {"ok"}

FirstSends == IF cfg.REQUIRE_POST_REVIEW THEN {"201"} ELSE SendOutcomes

Poll ==
    /\ rv.pc = "poll"
    /\ LET read == review_read(rv) IN
       \E outcome \in (IF read.approved THEN SendOutcomes ELSE {"201"}),
          rename \in (IF read.approved THEN RenameOutcomes ELSE {"ok"}) :
         rv' = review_poll(rv, read, outcome, rename)
    /\ UNCHANGED <<app, secret, vcall, fcall, req, resp, legacy, today, files, posted, cfg, job, person_urn, savers>>

\* Someone edits or deletes the pending review file.
Edit(e) ==
    /\ rv.pc = "poll"
    /\ rv.file.st = "pending"
    /\ rv' = edit(rv, e)
    /\ UNCHANGED <<app, secret, vcall, fcall, req, resp, legacy, today, files, posted, cfg, job, person_urn, savers>>

ReviewContents == {"Shipped v1", "one\ntwo", "v2:\n=> faster"}

Publish(content) ==
    /\ rv.pc \in {"idle", "done"}
    /\ \E io \in ReviewWrites, outcome \in FirstSends :
         rv' = review_and_post(content, <<>>, today, io, outcome)
    /\ UNCHANGED <<app, secret, vcall, fcall, req, resp, legacy, today, files, posted, cfg, job, person_urn, savers>>

InitReview ==
    /\ app = "package"
    /\ secret = Str("s1")
    /\ cfg \in [REQUIRE_POST_REVIEW : BOOLEAN, USE_PIPEDREAM : BOOLEAN]
    /\ InitHttp /\ InitStore /\ InitPublisher

NextReview ==
    \/ \E content \in ReviewContents : Publish(content)
    \/ Poll
    \/ \E e \in Edits : Edit(e)

SpecReview == InitReview /\ [][NextReview]_vars

----------------------------------------------------------------------------
(* The scheduler's daily job, the clock and the webhooks *)

\* The webhooks delivered while the scheduler runs: validly signed pushes.
Deliveries ==
    [body : {EmptyBody}, sig : {Str(expected_signature(secret.text, EmptyBody))},
     event : {Str("push")}]

Deliver(r) ==
    /\ Stored(files, MaxDay) + Stored(posted, MaxDay) < MaxStored
    /\ \E io \in WriteOutcomes :
         files' = github_webhook(r, secret, files, today, io).files
    /\ UNCHANGED <<app, secret, vcall, fcall, req, resp, legacy, today, posted, cfg, rv, job, person_urn, savers>>

\* The answer of the language model while the scheduler runs
LlmOutcomes == {Return("summary")}

\* schedule.run_pending() finds the daily job due: once per calendar day.
JobStart ==
    /\ job.pc = "idle"
    /\ job.last_run < today
    /\ job' = [NoPublish(job) EXCEPT !.pc = "sweep", !.days_back = 1, !.last_run = today]
    /\ UNCHANGED <<app, secret, vcall, fcall, req, resp, legacy, today, files, posted, cfg, rv, person_urn, savers>>

\* One pass of the loop of check_for_missed_posts, up to the call of
\* review_and_post
SweepPass(whole) ==
    /\ job.pc = "sweep"
    /\ LET check_date == today - job.days_back
           events == load_events(files, check_date)
       IN  IF missed(files, posted, check_date) /\ has_events(events)
           THEN /\ job' = [job EXCEPT !.pc = "sweep_post", !.date = check_date,
                                      !.events = events, !.success = "none"]
                /\ \E llm \in LlmOutcomes, order \in Orders(EventTypes(events)),
                      io \in ReviewWrites, outcome \in FirstSends :
                     rv' = review_and_post(generate_daily_summary(events, llm, order),
                                           <<>>, today, io, outcome)
           ELSE /\ job' = loop_step(NoPublish(job), whole)
                /\ UNCHANGED rv
    /\ UNCHANGED <<app, secret, vcall, fcall, req, resp, legacy, today, files, posted, cfg, person_urn, savers>>

SweepDay == SweepPass(FALSE)

\* review_and_post has returned or raised in check_for_missed_posts
SweepPassResult(whole, rename) ==
    /\ job.pc = "sweep_post"
    /\ rv.pc = "done"
    /\ LET h == handle_posting_result(rv.result = Return(TRUE), files, posted,
                                      job.date, rename)
       IN  files' = h.files /\ posted' = h.posted
    /\ job' = loop_step([job EXCEPT !.success = Success(rv.result)], whole)
    /\ rv' = IdleReview
    /\ UNCHANGED <<app, secret, vcall, fcall, req, resp, legacy, today, cfg, person_urn, savers>>

SweepResult(rename) == SweepPassResult(FALSE, rename)

\* post_daily_summary after the sweep, up to the call of review_and_post
TodayLoad ==
    /\ job.pc = "today"
    /\ LET events == load_events(files, today) IN
       IF has_events(events)
       THEN /\ job' = [job EXCEPT !.pc = "today_post", !.date = today, !.events = events,
                                  !.success = "none"]
            /\ \E llm \in LlmOutcomes, order \in Orders(EventTypes(events)),
                  io \in ReviewWrites, outcome \in FirstSends :
                 rv' = review_and_post(generate_daily_summary(events, llm, order),
                                       events, today, io, outcome)
       ELSE /\ job' = [NoPublish(job) EXCEPT !.pc = "idle"]
            /\ UNCHANGED rv
    /\ UNCHANGED <<app, secret, vcall, fcall, req, resp, legacy, today, files, posted, cfg, person_urn, savers>>

\* review_and_post has returned or raised in post_daily_summary;
\* archive_events() takes the date from the clock.
TodayResult(rename) ==
    /\ job.pc = "today_post"
    /\ rv.pc = "done"
    /\ LET h == handle_posting_result(rv.result = Return(TRUE), files, posted,
                                      today, rename)
       IN  files' = h.files /\ posted' = h.posted
    /\ job' = [job EXCEPT !.pc = "idle", !.success = Success(rv.result)]
    /\ rv' = IdleReview
    /\ UNCHANGED <<app, secret, vcall, fcall, req, resp, legacy, today, cfg, person_urn, savers>>

Init ==
    /\ app = "package"
    /\ secret = Str("s1")
    /\ cfg \in {DefaultConfig, [REQUIRE_POST_REVIEW |-> FALSE, USE_PIPEDREAM |-> TRUE]}
    /\ InitHttp /\ InitStore /\ InitPublisher

\* Someone approves or deletes the review file while the job runs; the
\* wait of the review gate up to its timeout is followed in SpecReview.
Next ==
    \/ Tick
    \/ \E r \in Deliveries : Deliver(r)
    \/ JobStart
    \/ SweepDay
    \/ \E rename \in {"ok", "OSError"} : SweepResult(rename)
    \/ TodayLoad
    \/ \E rename \in {"ok", "OSError"} : TodayResult(rename)
    \/ Poll
    \/ \E e \in {"approve", "delete"} : Edit(e)

Spec == Init /\ [][Next]_vars

\* A step of the scheduler's thread: run_pending() dispatching the job that is
\* due, or the next step of the job that was dispatched.
JobStep ==
    \/ JobStart
    \/ SweepDay
    \/ \E rename \in {"ok", "OSError"} : SweepResult(rename)
    \/ TodayLoad
    \/ \E rename \in {"ok", "OSError"} : TodayResult(rename)
    \/ Poll

\* start_scheduler's loop runs while is_running is set, so the thread is not
\* held back for ever when it can take a step; a review wait ends at the
\* latest with its last attempt.
Running == WF_vars(JobStep)

\* The clock and the webhooks while the loop is followed to its ends: fewer
\* days and events than in Spec.
MaxRunDay == 1

MaxRunStored == 1

RunTick ==
    /\ today < MaxRunDay
    /\ today' = today + 1
    /\ UNCHANGED <<app, secret, vcall, fcall, req, resp, legacy, files, posted, cfg, rv, job, person_urn, savers>>

RunDeliver(r) ==
    /\ Stored(files, MaxDay) + Stored(posted, MaxDay) < MaxRunStored
    /\ \E io \in WriteOutcomes :
         files' = github_webhook(r, secret, files, today, io).files
    /\ UNCHANGED <<app, secret, vcall, fcall, req, resp, legacy, today, posted, cfg, rv, job, person_urn, savers>>

NextRunning ==
    \/ RunTick
    \/ \E r \in Deliveries : RunDeliver(r)
    \/ JobStep
    \/ \E e \in {"approve", "delete"} : Edit(e)

SpecRunning == Init /\ [][NextRunning]_vars /\ Running

----------------------------------------------------------------------------
(* The scheduler on days that pass and publishes that succeed *)

\* No review is required and the relay takes the posts.
InitDaily ==
    /\ app = "package"
    /\ secret = Str("s1")
    /\ cfg = [REQUIRE_POST_REVIEW |-> FALSE, USE_PIPEDREAM |-> TRUE]
    /\ InitHttp /\ InitStore /\ InitPublisher

\* review_and_post returned True
Published == rv.pc = "done" /\ rv.result = Return(TRUE)

\* A step of the job whose send is accepted and whose rename succeeds
DailyStep ==
    \/ JobStart
    \/ SweepDay /\ (job'.pc = "sweep_post" => Published')
    \/ SweepResult("ok")
    \/ TodayLoad /\ (job'.pc = "today_post" => Published')
    \/ TodayResult("ok")

\* A webhook whose event is written to the day's bucket
Stores(r) == Deliver(r) /\ files'[today].st = "ok"

NextDaily ==
    \/ Tick
    \/ \E r \in Deliveries : Stores(r)
    \/ DailyStep

\* The scheduler's loop keeps running and the days pass.
SpecDaily == InitDaily /\ [][NextDaily]_vars /\ WF_vars(DailyStep) /\ WF_vars(Tick)

----------------------------------------------------------------------------
(* The sweep with a clock that goes on past its horizon *)

\* Days enough for the latest bucket to be older than the sweep looks back
MaxSweepDay == MaxDay + lookback + 1

\* The events stored while the sweep is followed
MaxSweepStored == 1

\* A run of the job, at most eight publishes of an hour's wait each, lasts
\* less than a day: at most one midnight passes while it runs.
SweepTick ==
    /\ today < MaxSweepDay
    /\ job.pc = "idle" \/ today = job.last_run
    /\ today' = today + 1
    /\ UNCHANGED <<app, secret, vcall, fcall, req, resp, legacy, files, posted, cfg, rv, job, person_urn, savers>>

\* A webhook stored on one of the first days
SweepStores(r) ==
    /\ today \in Days
    /\ Stored(files, MaxDay) + Stored(posted, MaxDay) < MaxSweepStored
    /\ Stores(r)

NextSweep ==
    \/ SweepTick
    \/ \E r \in Deliveries : SweepStores(r)
    \/ JobStart
    \/ SweepPass(TRUE)
    \/ \E rename \in {"ok", "OSError"} : SweepPassResult(TRUE, rename)
    \/ TodayLoad
    \/ \E rename \in {"ok", "OSError"} : TodayResult(rename)

SpecSweep == InitDaily /\ [][NextSweep]_vars

----------------------------------------------------------------------------
(* Claims *)

\* C1: when a review is required, nothing is sent unless someone has changed
\* the approval flag of the review file; if the flag is never changed, the call
\* makes its 12 polls and returns False without sending.
C1_NoSendUnlessFlagChanged ==
    (cfg.REQUIRE_POST_REVIEW /\ ~rv.flag_set) =>
        /\ rv.sends = <<>>
        /\ (rv.pc = "done" /\ rv.file.st = "pending") =>
               (rv.attempts = max_attempts /\ rv.result = Return(FALSE))

\* C2: when the publish of today's bucket reports success and the bucket is
\* still as the job loaded it, the job's completion leaves that day without an
\* active bucket and with an archived one holding the same events.
C2_SuccessArchivesTodaysBucket ==
    [][(/\ TodayResult("ok")
        /\ rv.result = Return(TRUE)
        /\ files[job.date] = Bucket(job.events))
          => (/\ files'[job.date] = Absent
              /\ posted'[job.date] = Bucket(job.events))]_vars

\* C3: when the publish of today's bucket reports failure, or raises, the job
\* completes without changing any active bucket and without creating any
\* archived one.
C3_FailureLeavesBucket ==
    [][\A rename \in {"ok", "OSError"} :
         (TodayResult(rename) /\ rv.result # Return(TRUE))
            => (files' = files /\ posted' = posted)]_vars

\* The job has handled a failed publish of today's bucket: the bucket is in
\* place as loaded, and nothing is archived for the day.
C3_Witness ==
    /\ job.pc = "idle"
    /\ job.success = "False"
    /\ job.events # <<>>
    /\ files[job.date] = Bucket(job.events)
    /\ posted[job.date] = Absent

\* C4: a failed publish of a day's bucket leaves the day as the next runs'
\* sweep looks for it, an active bucket with the same events and no archived
\* counterpart, so that the next run publishes those events again; and a retry
\* that succeeds archives the bucket.
C4_FailedPublishRetried ==
    [][\A rename \in {"ok", "OSError"} :
         /\ (/\ TodayResult(rename) \/ SweepResult(rename)
             /\ rv.result # Return(TRUE)
             /\ files[job.date] = Bucket(job.events))
               => (/\ missed(files', posted', job.date)
                   /\ load_events(files', job.date) = job.events)
         /\ (SweepResult("ok") /\ rv.result = Return(TRUE))
               => (files'[job.date] = Absent /\ posted'[job.date] = files[job.date])]_vars

\* The archive of a swept day: the active bucket gone, the archived one
\* holding what it held.
SweepArchived == files'[job.date] = Absent /\ posted'[job.date] = files[job.date]

\* The pass of the sweep over a day with an active bucket of events and no
\* archived one starts a publish of those events.
SweepAttempts ==
    LET check_date == today - job.days_back IN
    (/\ check_date \in Days
     /\ files[check_date].ev # <<>>
     /\ posted[check_date] = Absent
     /\ SweepDay)
       => (/\ job'.pc = "sweep_post"
           /\ job'.date = check_date
           /\ job'.events = files[check_date].ev
           /\ rv'.pc # "idle")

C6_NoPublishOfEmptyList ==
    [][/\ (load_events(files, today - job.days_back) = <<>> /\ SweepDay)
            => (/\ rv' = rv /\ files' = files /\ posted' = posted
                /\ job'.pc \in {"sweep", "today"} /\ job'.events = <<>>)
       /\ (load_events(files, today) = <<>> /\ TodayLoad)
            => (/\ rv' = rv /\ files' = files /\ posted' = posted
                /\ job'.pc = "idle" /\ job'.events = <<>>)
       /\ (rv.pc = "idle" /\ rv'.pc # "idle") => job'.events # <<>>
       /\ (posted' # posted) => job.events # <<>>]_vars

\* The sweep has passed over yesterday's unparsable bucket without a publish.
C6_Witness ==
    /\ job.pc = "sweep"
    /\ job.days_back = 2
    /\ today >= 1
    /\ files[today - 1] = Corrupt
    /\ posted[today - 1] = Absent
    /\ job.success = "none"
    /\ rv.pc = "idle"

\* C7: for every configured secret and every body, verify_webhook_signature is
\* true for the signature "sha256=" + hex HMAC of the body, and false for every
\* other signature string and for every other body paired with that signature.
C7_VerifyTrueIffExpectedSignature ==
    (vcall.called /\ ~Falsy(secret) /\ vcall.signature.present) =>
        vcall.out = Return(vcall.signature.text
                           = expected_signature(secret.text, vcall.data))

\* A header that does not have the form "sha256=" followed by ASCII text
MalformedSignature(signature) ==
    ~StartsWith(signature.text, "sha256=") \/ ~IsAsciiText(signature.text)

\* C8: verify_webhook_signature returns false, without raising, when the secret
\* is unconfigured and when the signature header is absent or malformed.
C8_FalseWithoutRaising ==
    (/\ vcall.called
     /\ \/ Falsy(secret)
        \/ ~vcall.signature.present
        \/ MalformedSignature(vcall.signature)) =>
        vcall.out = Return(FALSE)

\* The request's signature is missing or is not the signature of its body.
BadSignature(r) ==
    ~r.sig.present \/ r.sig.text # expected_signature(secret.text, r.body)

\* The request a step of the front door handled, as recorded in req.
Handled(q) == [body |-> q.body, sig |-> q.sig, event |-> q.event]

\* C9: every POST /webhook whose signature is bad or missing is answered 403
\* and creates or modifies no day bucket, for any event type and payload.
C9_BadSignatureAnswered403 ==
    [][LET r == Handled(req') IN
       (BadSignature(r) /\ Webhook(r)) =>
           (resp'.status = 403 /\ files' = files /\ posted' = posted)]_vars

\* The request is validly signed and its event type is not one of push,
\* release, repository, organization.
ValidUnsupported(r) ==
    /\ ~BadSignature(r)
    /\ ~(r.event.present
         /\ r.event.text \in {"push", "release", "repository", "organization"})

\* C10 as stated: a validly signed POST /webhook of an unsupported event type
\* is answered 200 and has no side effect, in the package's handler (no event
\* stored) and in the legacy handler (nothing generated, nothing posted).
C10_UnsupportedAnswered200 ==
    [][LET r == Handled(req') IN
       ValidUnsupported(r) =>
           /\ Webhook(r) =>
                (resp'.status = 200 /\ files' = files /\ posted' = posted)
           /\ LegacyWebhook(r) =>
                (resp'.status = 200 /\ legacy' = NoLegacy)]_vars

\* C10 amended: such a request is answered 200 when its body parses as JSON and
\* 500 when it does not, and has no side effect in either case.
C10_UnsupportedHasNoEffect ==
    [][LET r == Handled(req')
           status == IF get_json(r.body).exc = "" THEN 200 ELSE 500
       IN  ValidUnsupported(r) =>
               /\ Webhook(r) =>
                    (resp'.status = status /\ files' = files /\ posted' = posted)
               /\ LegacyWebhook(r) =>
                    (resp'.status = status /\ legacy' = NoLegacy)]_vars

\* An unsupported, validly signed request was answered 200 while the day's
\* bucket held an event.
C10_Witness ==
    /\ req.handler = "package"
    /\ ValidUnsupported(req)
    /\ req.event = Str("ping")
    /\ resp = Response(200, "Event not handled")
    /\ files[today].st = "ok" /\ Len(files[today].ev) = 1

\* The request is validly signed and its event type is one of push, release,
\* repository, organization.
ValidSupported(r) ==
    /\ ~BadSignature(r)
    /\ r.event.present
    /\ r.event.text \in {"push", "release", "repository", "organization"}

\* The body of the request is a JSON object.
ObjectBody(r) == r.body \in {EmptyBody, PushBody, AccentBody}

\* Today's bucket with the event of request r appended to its readable events
Appended(r) ==
    Bucket(Append(IF files[today].st = "ok" THEN files[today].ev ELSE <<>>,
                  [type |-> r.event.text, timestamp |-> today,
                   summary |-> summarize_event(r.event.text, get_json(r.body).val).val,
                   payload |-> r.body]))

\* The step is the handling of r with the write of the bucket ending as io.
Wrote(r, io) ==
    LET out == github_webhook(r, secret, files, today, io) IN
    resp' = out.resp /\ files' = out.files

C12_FailureAnswered500 ==
    [][LET r == Handled(req') IN
       (~BadSignature(r) /\ Webhook(r)) =>
           /\ resp'.status \in {200, 500}
           /\ resp'.status = 200 =>
                \/ ValidUnsupported(r)
                \/ ObjectBody(r) /\ files'[today] = Appended(r)]_vars

\* The event a direct call of save_event stores
SavedEvent ==
    [type |-> fcall'.type, timestamp |-> today,
     summary |-> summarize_event(fcall'.type, get_json(fcall'.body).val).val,
     payload |-> fcall'.body]

\* C13: for a readable bucket B of today, a save of event e that returns,
\* followed by a load of the same day, gives B with e appended as its last
\* element.
C13_SaveThenLoadAppends ==
    [][(/\ fcall'.op = "save"
        /\ fcall'.out.exc = ""
        /\ Save(fcall'.type, fcall'.body, fcall'.outcome)
        /\ files[today].st = "ok")
          => load_events_call(files', today) = Return(Append(files[today].ev, SavedEvent))]_vars

\* A save on a bucket that held an event has returned.
C13_Witness ==
    /\ fcall.op = "save"
    /\ fcall.out.exc = ""
    /\ files[today].st = "ok"
    /\ Len(files[today].ev) = 2
    /\ files[today].ev[2].payload = fcall.body

\* The step is a direct call of archive_events.
Archived == fcall'.op = "archive" /\ Archive(fcall'.date, fcall'.outcome)

\* A second call of archive_events on the day returns False and changes no file.
SecondArchiveRefused ==
    \A rename \in {"ok", "OSError"} :
        archive_events(files', posted', fcall'.date, rename)
            = [val |-> FALSE, files |-> files', posted |-> posted']

\* C14 as stated: archive returns True and renames the bucket when the day has
\* an active bucket, and a second call then returns False and changes no file.
C14_ArchiveIdempotent ==
    [][(Archived /\ Exists(files, fcall'.date)) =>
          /\ fcall'.out = Return(TRUE)
          /\ files'[fcall'.date] = Absent
          /\ posted'[fcall'.date] = files[fcall'.date]
          /\ SecondArchiveRefused]_vars

\* C14 amended: the same when the rename does not fail; when os.rename raises
\* OSError the call returns False and changes no file.
C14_ArchiveIdempotentUnlessRenameFails ==
    [][(Archived /\ Exists(files, fcall'.date)) =>
          IF fcall'.outcome = "ok"
          THEN /\ fcall'.out = Return(TRUE)
               /\ files'[fcall'.date] = Absent
               /\ posted'[fcall'.date] = files[fcall'.date]
               /\ \A d \in Days \ {fcall'.date} : files'[d] = files[d] /\ posted'[d] = posted[d]
               /\ SecondArchiveRefused
          ELSE /\ fcall'.out = Return(FALSE)
               /\ files' = files /\ posted' = posted]_vars

\* archive_events was called on a day already archived: it returned False.
C14_Witness ==
    /\ fcall.op = "archive"
    /\ fcall.out = Return(FALSE)
    /\ files[fcall.date] = Absent
    /\ posted[fcall.date].st = "ok"
    /\ posted[fcall.date].ev # <<>>

\* C15: load never raises; it returns the empty list when the day's file is
\* missing, unreadable or unparsable, and the stored list otherwise.
C15_LoadNeverRaises ==
    fcall.op = "load" =>
        /\ fcall.out.exc = ""
        /\ fcall.out.val = (IF files[fcall.date].st = "ok" THEN files[fcall.date].ev ELSE <<>>)

\* C16: a direct send reports success exactly when the post-creation endpoint
\* answers 201; every other status and every network or identity failure
\* makes it return False, and it never raises.
C16_DirectSuccessIff201 ==
    fcall.op \in {"post_content", "post_to_linkedin"} =>
        /\ fcall.out.exc = ""
        /\ fcall.out.val = (fcall.urn \in {"", "200"} /\ fcall.outcome = "201")

\* C17: with a relay URL configured every publish, reviewed or not, goes to
\* the relay and none to the identity and post endpoints of the direct send;
\* with none configured every publish is a direct send and the relay is never
\* called.
C17_SendsUseConfiguredMethod ==
    \A i \in 1..Len(rv.sends) :
        rv.sends[i].method = IF cfg.USE_PIPEDREAM THEN "relay" ELSE "direct"

\* A reviewed publish was sent to the relay.
C17_Witness ==
    /\ cfg.USE_PIPEDREAM
    /\ cfg.REQUIRE_POST_REVIEW
    /\ rv.pc = "done"
    /\ Len(rv.sends) = 1
    /\ rv.sends[1] = Send("relay", rv.content, rv.events)

\* C19: once a review cycle has reached its decision (approval with a
\* successful send, approval with a failed send, or timeout) the review file
\* no longer stands under its pending name.
C19_DecidedReviewIsRenamed ==
    (rv.pc = "done" /\ cfg.REQUIRE_POST_REVIEW /\ rv.result.exc = "")
        => rv.file.st # "pending"

\* C20: approving the review file with its content left as written sends
\* exactly the content that was generated, for every content string.
C20_UneditedApprovalSendsOriginal ==
    (rv.pc = "done" /\ cfg.REQUIRE_POST_REVIEW /\ rv.flag_set /\ rv.sends # <<>>)
        => rv.sends[Len(rv.sends)].content = rv.content

\* The relay payload of a send carries the content, the count and the types
\* of the bucket `events`, and the first min(10, n) of its events in order.
CarriesBucket(send, events) ==
    LET p == pipedream_payload(send.content, send.events)
        n == Len(events)
        m == IF n < 10 THEN n ELSE 10
    IN  /\ p.content = send.content
        /\ p.stats.total_events = n
        /\ p.stats.event_types = {events[k].type : k \in 1..n}
        /\ Len(p.events_summary) = m
        /\ \A k \in 1..m :
              /\ p.events_summary[k].type = events[k].type
              /\ p.events_summary[k].summary = events[k].summary
              /\ p.events_summary[k].timestamp = events[k].timestamp

\* C18: every relay publish of a day's bucket of n events, today's or a
\* missed day's, carries the content, total_events = n with the bucket's
\* distinct types, and the first min(10, n) events in order; a relay failure
\* is returned as False, not raised.
C18_RelayPayloadCarriesBucket ==
    job.pc \in {"sweep_post", "today_post"} =>
        \A i \in 1..Len(rv.sends) :
            rv.sends[i].method = "relay" =>
                /\ CarriesBucket(rv.sends[i], job.events)
                /\ rv.pc = "done" => rv.result.exc = ""

\* C21: identity resolution asks the newer API first and the older one only
\* if the newer one gave no id; it raises ValueError exactly when neither
\* gives an id, and raises nothing else.
C21_IdentityFallsBackThenValueError ==
    (fcall.op = "get_person_urn" /\ fcall.type # "cached") =>
        /\ Len(fcall.events) >= 1 /\ fcall.events[1] = "v3"
        /\ (Len(fcall.events) > 1) => fcall.urn # "id"
        /\ fcall.out.exc \in {"", "ValueError"}
        /\ (fcall.out.exc = "ValueError") <=> (fcall.urn # "id" /\ fcall.outcome # "id")

\* The variables validate_config was called without
Unset(c) ==
    {var \in {"GITHUB_TOKEN", "GITHUB_WEBHOOK_SECRET", "GROQ_API_KEY"} : Falsy(c[var])}
    \cup (IF Falsy(c.LINKEDIN_ACCESS_TOKEN) /\ Falsy(c.PIPEDREAM_WEBHOOK_URL)
          THEN {"LINKEDIN_ACCESS_TOKEN"} ELSE {})

\* C22: validate_config fails with a ValueError whose message says
\* "<variable> is required" for a missing variable whenever the repo-host
\* token, the webhook secret or the LLM key is unset, or the posting token is
\* unset with no relay URL; otherwise it returns True.
C22_MissingVariableIsRequired ==
    fcall.op = "validate_config" =>
        LET unset == Unset(fcall.args) IN
        IF unset = {} THEN fcall.out = Return(TRUE)
        ELSE /\ fcall.out.exc = "ValueError"
             /\ \E var \in unset : Contains(fcall.msg, var \o " is required")

\* C23: whatever the publish of a missed day gave (success, failure, an
\* error raised) and whether or not its archive succeeded, the sweep goes on
\* to the next day of the window, and after the last day that can hold a
\* bucket to today's processing.
C23_SweepGoesOnAfterFailure ==
    [][\A rename \in {"ok", "OSError"} :
         SweepResult(rename) =>
            /\ job'.pc \in {"sweep", "today"}
            /\ job'.pc = "sweep" => job'.days_back = job.days_back + 1
            /\ job'.pc = "today" =>
                 \A k \in (job.days_back + 1)..lookback :
                    today - k \in Days => ~missed(files', posted', today - k)]_vars

\* The publish of yesterday's bucket failed or raised, and the sweep stands
\* before the pass for the day before, which has a missed bucket too.
C23_Witness ==
    /\ job.pc = "sweep"
    /\ job.days_back = 2
    /\ job.success \in {"False", "raised"}
    /\ job.date = today - 1
    /\ today = 2
    /\ missed(files, posted, 0)
    /\ files[0].ev # <<>>

\* C24: no outcome of the daily job, an error raised in the load, the
\* summary, the review gate, the publish or the archive included, ends the
\* scheduler's loop: every job that was dispatched comes to its end, and the
\* loop then dispatches the job again once it is due.
C24_LoopOutlivesEveryJob ==
    /\ (job.pc # "idle") ~> (job.pc = "idle")
    /\ (job.last_run < today) ~> (job.last_run = today)

\* A job in which review_and_post raised has come to its end.
C24_Witness ==
    /\ job.pc = "idle"
    /\ job.success = "raised"
    /\ job.last_run = today

\* C25: save_event takes no lock between its read and its write of the
\* bucket: a save that writes stores the events it read followed by its own,
\* whatever was written to the bucket since it read, so that of two concurrent
\* saves of a day one event can be lost.
C25_SaveWritesWhatItRead ==
    [][\A t \in Threads :
         (savers[t].pc = "read" /\ SaveWrite(t, "ok") /\ savers'[t].exc = ""
          /\ savers[t].read.st \in {"absent", "ok"})
            => /\ Len(files'[today].ev) = Len(savers[t].read.ev) + 1
               /\ SubSeq(files'[today].ev, 1, Len(savers[t].read.ev)) = savers[t].read.ev
               /\ files'[today].ev[Len(files'[today].ev)].type = savers[t].type
               /\ files'[today].ev[Len(files'[today].ev)].payload = savers[t].body]_vars

\* Two concurrent saves have both returned and the bucket holds one event.
C25_Witness ==
    /\ \A t \in {1, 2} : savers[t].pc = "done" /\ savers[t].exc = ""
                         /\ savers[t].read = Absent
    /\ files[today].st = "ok"
    /\ Len(files[today].ev) = 1

\* C26: generate_daily_summary returns a string for every event list and
\* never raises; when the model call fails the string is the templated
\* sentence that states the number of events and each distinct event type.
C26_SummaryOrFallback ==
    fcall.op = "generate_daily_summary" =>
        /\ fcall.out.exc = ""
        /\ fcall.outcome = "" => fcall.out.val = fcall.content
        /\ fcall.outcome # "" =>
             /\ \E order \in Orders({fcall.events[i].type : i \in 1..Len(fcall.events)}) :
                   fcall.out.val =
                      "Today we had " \o ToString(Len(fcall.events))
                      \o " GitHub activities including " \o JoinComma(order)
                      \o ". Great progress on our projects!"
             /\ \A i \in 1..Len(fcall.events) : Contains(fcall.out.val, fcall.events[i].type)

\* The model call failed for a bucket of several events of two types.
C26_Witness ==
    /\ fcall.op = "generate_daily_summary"
    /\ fcall.outcome = "APIError"
    /\ Len(fcall.events) = 3
    /\ Contains(fcall.out.val, "3 GitHub activities including release, push.")

\* The payload has no null field.
NoNulls(payload) ==
    /\ payload.repository.st # "null" /\ payload.commits.st # "null"
    /\ payload.ref.st # "null" /\ payload.release.st # "null"
    /\ payload.action.st # "null"

\* C27: for a push payload with N commits and ref "refs/heads/B" the summary
\* contains the decimal N and the branch name B; for a release with a tag and
\* a named repository it contains the tag and the repository name; for an
\* unrecognised type it contains the type name.
C27_SummaryNamesCountAndBranch ==
    (fcall.op = "summarize_event" /\ NoNulls(fcall.args)) =>
        /\ fcall.out.exc = ""
        /\ (/\ fcall.type = "push"
            /\ fcall.args.commits.st = "val"
            /\ fcall.args.ref.st = "val"
            /\ StartsWith(fcall.args.ref.v, "refs/heads/"))
              => /\ Contains(fcall.out.val, ToString(fcall.args.commits.v))
                 /\ Contains(fcall.out.val,
                             SubSeq(fcall.args.ref.v, Len("refs/heads/") + 1,
                                    Len(fcall.args.ref.v)))
        /\ (/\ fcall.type = "release"
            /\ fcall.args.release.st = "val"
            /\ fcall.args.release.v.tag_name.st = "val"
            /\ fcall.args.repository.st = "val"
            /\ fcall.args.repository.v.name # "")
              => /\ Contains(fcall.out.val, fcall.args.release.v.tag_name.v)
                 /\ Contains(fcall.out.val, fcall.args.repository.v.name)
        /\ fcall.type = "ping" => Contains(fcall.out.val, "ping")

\* C28: summarize_event raises for no event type and no payload record with
\* missing or null fields.
C28_SummarizeNeverRaises ==
    fcall.op = "summarize_event" => fcall.out.exc = ""

\* C29 as stated: in the legacy handler a validly signed webhook of a
\* supported type generates content exactly once and posts it exactly once,
\* answered 200 if the post succeeds and 500 if it fails.
C29_LegacyGeneratesAndPostsOnce ==
    [][LET r == Handled(req') IN
       (ValidSupported(r) /\ LegacyWebhook(r)) =>
           /\ Len(legacy'.generated) = 1
           /\ Len(legacy'.posted) = 1
           /\ resp'.status \in {200, 500}]_vars

\* C29 amended: such a webhook whose body parses as JSON generates content
\* exactly once; when the generation and the identity lookup succeed, exactly
\* that content is posted exactly once, answered 200 if the post answers 201
\* and 500 otherwise; when one of them fails nothing is posted and the answer
\* is 500.
C29_LegacyPostsGeneratedContentOnce ==
    [][LET r == Handled(req') IN
       (ValidSupported(r) /\ get_json(r.body).exc = "" /\ LegacyWebhook(r)) =>
           /\ legacy'.generated = <<r.event.text>>
           /\ \A o \in LegacyOutcomes :
                LET out == legacy_github_webhook(r, secret, o.ai, o.urn, o.post) IN
                (resp' = out.resp /\ legacy' = out.calls) =>
                    IF o.ai.exc = "" /\ o.urn = "200"
                    THEN /\ legacy'.posted = <<o.ai.val>>
                         /\ resp'.status = IF o.post = "201" THEN 200 ELSE 500
                    ELSE /\ legacy'.posted = <<>>
                         /\ resp'.status = 500]_vars

\* The legacy handler generated a post for a push and posted it.
C29_Witness ==
    /\ req.handler = "legacy"
    /\ ValidSupported(req)
    /\ resp = Response(200, "Posted to LinkedIn")
    /\ legacy.generated = <<"push">>
    /\ legacy.posted = <<"post A">>

\* C30: every event of an archived bucket was in the event list the
\* published summary of that day was generated from: no event that a webhook
\* appended between the job's load and its archive is archived unpublished.
C30_ArchivedEventsWerePublished ==
    [][posted'[job.date] # posted[job.date] =>
          /\ Len(posted'[job.date].ev) <= Len(job.events)
          /\ \A i \in 1..Len(posted'[job.date].ev) :
                \E k \in 1..Len(job.events) : job.events[k] = posted'[job.date].ev[i]]_vars

\* C31: while the scheduler runs every day and every publish succeeds, every
\* event stored in a day's bucket is in time part of a published summary of
\* that day, after which the day has no active bucket left; this holds also
\* for an event stored after the day's bucket was published and archived.
\* (Days before the last one the clock reaches.)
C31_StoredEventsArePublished ==
    \A d \in 0..(MaxDay - 1) :
        (files[d].ev # <<>>)
           ~> (job.date = d /\ job.success = "True" /\ files[d].ev = <<>>)

\* The publish of the first n events of day d has succeeded.
PublishSucceeded(d, n) ==
    job.success = "True" /\ job.date = d /\ Len(job.events) = n

\* A publish of day d's bucket, its first n events included, is under way.
Publishing(d, n) ==
    /\ job.pc \in {"sweep_post", "today_post"}
    /\ job.success = "none"
    /\ job.date = d
    /\ Len(job.events) >= n

\* C32: no day's bucket is published more than once: after a publish of a
\* day's events has succeeded, no later run of the daily job or of the sweep
\* publishes those events again, whatever the rename of the archive did.
C32_NoBucketPublishedTwice ==
    \A d \in Days, n \in 1..MaxStored :
        [](PublishSucceeded(d, n) => [](~Publishing(d, n)))

\* C33: the bucket the daily job archives after a successful publish is the
\* bucket of the date it loaded the published events from, also when the job
\* spans midnight: what the job's completion does to the files is what
\* archive_events does for the date of the load.
C33_ArchivesTheDateItLoaded ==
    [][(job.pc = "today_post" /\ job'.pc = "idle" /\ job'.success = "True")
          => \E rename \in {"ok", "OSError"} :
                LET a == archive_events(files, posted, job.date, rename) IN
                files' = a.files /\ posted' = a.posted]_vars

\* C34: after any sequence of saves and archives no date has an active bucket
\* and an archived bucket at the same time.
C34_OneBucketPerDay ==
    \A d \in Days : ~(Exists(files, d) /\ Exists(posted, d))

\* C35: no save and no archive destroys archived data: every event that is in
\* a day's archived bucket is still in it after the operation.
C35_ArchivedEventsStay ==
    [][\A d \in Days : \A i \in 1..Len(posted[d].ev) :
          \E k \in 1..Len(posted'[d].ev) : posted'[d].ev[k] = posted[d].ev[i]]_vars

\* The day's file is there and cannot be read as a list of events.
Unreadable(b) == b.st \in {"corrupt", "garbled"}

\* C36: save_event does not fail because the day's bucket is corrupt or
\* unreadable: it goes on as if the bucket were empty, so a save whose write
\* succeeds leaves the bucket holding exactly the one new event.
C36_SaveOverUnreadableBucket ==
    [][\A event_type \in StoreTypes, body \in StoreBodies :
          (Save(event_type, body, "ok") /\ Unreadable(files[today]))
             => /\ fcall'.out.exc = ""
                /\ files'[today].st = "ok"
                /\ Len(files'[today].ev) = 1
                /\ files'[today].ev[1].type = event_type
                /\ files'[today].ev[1].payload = body]_vars

\* A run starts the publish of a bucket.
StartsPublish == job.pc \in {"sweep", "today"} /\ job'.pc \in {"sweep_post", "today_post"}

\* The days whose archived bucket the step makes or replaces
ArchivedBy == {d \in Days : posted'[d] # posted[d]}

\* C37 as stated: the sweep takes the 7 days before the current date, the most
\* recent first, and ends before today's bucket is loaded; it never publishes
\* or archives the bucket of the current date, and no run publishes or
\* archives a bucket dated more than 7 days before the current date.
C37_SweepWithinSevenDaysOfToday ==
    [][/\ (job.pc = "sweep" /\ job'.pc = "sweep" /\ job' # job)
             => (job'.days_back = job.days_back + 1 /\ job'.days_back <= lookback)
       /\ (job'.pc = "today_post" /\ job' # job) => job.pc = "today"
       /\ (StartsPublish /\ job.pc = "sweep") => job'.date # today
       /\ StartsPublish => today - job'.date <= lookback
       /\ \A d \in ArchivedBy :
             /\ job.pc = "sweep_post" => d # today
             /\ today - d <= lookback]_vars

\* C37: each pass of the sweep takes the date days_back days before the date of
\* the clock at that pass, for days_back from 1 to 7 in this order, and the
\* sweep ends before today's bucket is loaded; the sweep publishes no bucket
\* but that of the date of its pass and archives no bucket but the one it
\* published, which is never the bucket of the current date; today's
\* processing publishes and archives only a bucket of the current date.
C37_SweepWithinSevenDaysOfItsPass ==
    [][/\ (job.pc = "sweep" /\ job'.pc = "sweep" /\ job' # job)
             => (job'.days_back = job.days_back + 1 /\ job'.days_back <= lookback)
       /\ (job'.pc = "today_post" /\ job' # job) => job.pc = "today"
       /\ (StartsPublish /\ job.pc = "sweep")
             => /\ job.days_back \in 1..lookback
                /\ job'.date = today - job.days_back
       /\ (StartsPublish /\ job.pc = "today") => job'.date = today
       /\ \A d \in ArchivedBy :
             /\ job.pc = "sweep_post" => (d = job.date /\ d < today)
             /\ job.pc = "today_post" => d = today]_vars

\* The sweep of the job that began on day 7 has published and archived the
\* bucket of day 0.
C37_Witness ==
    /\ today = lookback
    /\ job.last_run = lookback
    /\ job.date = 0
    /\ job.success = "True"
    /\ Exists(posted, 0)

\* C38: once get_person_urn has succeeded every later call returns the same
\* identity without a request to an identity endpoint; a call that fails
\* stores nothing, so that the next call asks the endpoints again.
C38_IdentityCachedOnSuccessOnly ==
    [][fcall'.op = "get_person_urn" =>
             LET u == get_person_urn(person_urn, fcall'.urn, fcall'.outcome) IN
             /\ ~Falsy(person_urn) =>
                   /\ u.exc = "" /\ u.val = person_urn.text
                   /\ fcall'.events = <<>>
                   /\ person_urn' = person_urn
             /\ (Falsy(person_urn) /\ u.exc = "") =>
                   /\ person_urn' = Str(u.val) /\ ~Falsy(person_urn')
                   /\ fcall'.events # <<>>
             /\ (Falsy(person_urn) /\ u.exc # "") =>
                   /\ person_urn' = person_urn
                   /\ fcall'.events # <<>>]_vars

\* A call after a successful one has returned without asking an endpoint.
C38_Witness ==
    /\ fcall.op = "get_person_urn"
    /\ fcall.type = "cached"
    /\ fcall.events = <<>>
    /\ fcall.out.exc = ""
    /\ ~Falsy(person_urn)

====================================================================
